---- MODULE Spec2Model ----
(***************************************************************************)
(* Model of yellowleather/x-search: the local FAISS vector store           *)
(* (src/src/retrieval/vector_store.py) and the RAG pipeline                *)
(* (src/src/retrieval/rag_pipeline.py).                                    *)
(*                                                                         *)
(* Numbers.  Vectors are tuples of small integers.  faiss.normalize_L2 is  *)
(* modelled exactly: the unit vector v/|v| is represented by the primitive *)
(* integer vector of its direction (v divided by the gcd of its            *)
(* components), and the inner product of two unit vectors, a cosine, by    *)
(* its sign and its square as a fraction in lowest terms.  Two cosines are *)
(* equal exactly when their representations are equal.  float32 rounding   *)
(* is not modelled.                                                        *)
(*                                                                         *)
(* Python values.  An id value is written as its Python literal: "'a'" is  *)
(* the string a, "0" the integer 0.  Str is Python's str().  A metadata    *)
(* dict is a record; a key the dict lacks is a field the record lacks.     *)
(***************************************************************************)
EXTENDS Integers, Sequences, FiniteSets, TLC

VARIABLES
    index,       \* store -> the vectors of the FAISS index, in position order
    metadata,    \* store -> self.metadata, the list of metadata dicts
    id_lookup,   \* store -> self.id_lookup, str(id) -> position (0-based)
    files,       \* store -> the persisted index.faiss and metadata.json
    last,        \* the last completed call of the sequential client
    pc,          \* thread -> position inside add_items (concurrent clients)
    frame,       \* thread -> the locals of its add_items call
    lock,        \* store -> the thread holding self._lock, or NoThread
    qpc,         \* position of the pipeline inside RAGPipeline.query
    qs,          \* the locals of the running query and what it called
    env,         \* the configuration of the pipeline (settings)
    ing,         \* the embedding run (EmbeddingGenerator) and the flags it sets
    cap          \* the tweet capture service: Firestore, Pub/Sub and its callers

vars == <<index, metadata, id_lookup, files, last, pc, frame, lock, qpc, qs, env, ing, cap>>

-----------------------------------------------------------------------------
(* Bounds *)

MaxBatch == 2      \* entries in one add_items batch
MaxRecords == 3    \* records one store may hold before adds are cut off
MaxTopK == 2       \* largest top_k a caller passes
MaxTokens == 3     \* largest max_tokens format_context is asked for
MaxCaptures == 2   \* capture_tweet calls made for the one (user, tweet) pair

(* Program constants *)

EMBEDDING_DIMENSION == 2     \* settings.EMBEDDING_DIMENSION (768), scaled down
MAX_DISPLAY_RESULTS == 1     \* settings.MAX_DISPLAY_RESULTS (5), scaled down

None == "None"
NoThread == "NoThread"

Stores == {"tweet_store", "link_store"}

id_field(s) == IF s = "tweet_store" THEN "tweet_id" ELSE "link_id"

-----------------------------------------------------------------------------
(* Python values *)

IdValues == {"'a'", "'b'", "0"}

\* str(unique_id)
Str(v) ==
    CASE v = "'a'" -> "a"
      [] v = "'b'" -> "b"
      [] v = "''" -> ""
      [] v = "0" -> "0"
      [] v = "'0'" -> "0"
      [] v = "False" -> "False"

\* Python truthiness of an id value
Truthy(v) == v \notin {None, "0", "''", "False"}

HasKey(m, k) == k \in DOMAIN m

\* dict.get(k): the value, or None when the key is missing
Get(m, k) == IF HasKey(m, k) THEN m[k] ELSE None

-----------------------------------------------------------------------------
(* Vectors and similarity *)

Abs(x) == IF x < 0 THEN -x ELSE x

RECURSIVE GCD(_, _)
GCD(a, b) == IF b = 0 THEN a ELSE GCD(b, a % b)

RECURSIVE SeqGCD(_)
SeqGCD(v) == IF v = <<>> THEN 0 ELSE GCD(Abs(Head(v)), SeqGCD(Tail(v)))

RECURSIVE Dot(_, _)
Dot(u, v) == IF u = <<>> \/ v = <<>> THEN 0 ELSE Head(u) * Head(v) + Dot(Tail(u), Tail(v))

\* faiss.normalize_L2 on one row: v / |v|, a zero row is left alone
normalize_L2(v) ==
    LET g == SeqGCD(v)
    IN  IF g = 0 THEN v ELSE [i \in DOMAIN v |-> v[i] \div g]

Sign(x) == IF x > 0 THEN 1 ELSE IF x < 0 THEN -1 ELSE 0

\* The inner product of the unit vectors represented by u and v
InnerProduct(u, v) ==
    LET d == Dot(u, v)
        n == Dot(u, u) * Dot(v, v)
        g == GCD(d * d, n)
    IN  IF d = 0 \/ n = 0
        THEN [sgn |-> 0, num |-> 0, den |-> 1]
        ELSE [sgn |-> Sign(d), num |-> (d * d) \div g, den |-> n \div g]

\* a < b and a >= b on similarities
SimLess(a, b) == a.sgn * a.num * b.den < b.sgn * b.num * a.den
SimGE(a, b) == ~SimLess(a, b)

One == [sgn |-> 1, num |-> 1, den |-> 1]

-----------------------------------------------------------------------------
(* Inputs *)

\* Optional[...]: None is the empty tuple, a value v is <<v>>
NoneValue == <<>>
Some(v) == <<v>>
IsNone(o) == Len(o) = 0
Value(o) == o[1]

\* A vector of another length than the store's dimension
BadVectors == {<<1>>}

\* Metadata dicts.  _tweet_metadata and _link_metadata of the embedder build
\* the full ones; add_items takes any dict, so a bare one has only its id.
FullTweet(i) == [tweet_id |-> i, author_username |-> "u", text |-> "t"]
BareTweet(i) == [tweet_id |-> i]
NoIdTweet == [author_username |-> "u", text |-> "t"]
FullLink(i) == [link_id |-> i, url |-> "w"]
BareLink(i) == [link_id |-> i]

\* The embeddings a caller hands to search
QueryVectors == {<<2, 0>>, <<1, 1>>, <<0, 1>>} \cup BadVectors

Entry(e, m) == [embedding |-> e, metadata |-> m]

\* The (embedding, metadata) pairs a caller hands to add_items
TweetEntries ==
    {Entry(Some(<<1, 0>>), Some(FullTweet("'a'"))),
     Entry(Some(<<2, 0>>), Some(FullTweet("'b'"))),
     Entry(Some(<<1, 1>>), Some(BareTweet("0"))),
     Entry(NoneValue, Some(FullTweet("'b'"))),
     Entry(Some(<<1, 0>>), Some(NoIdTweet)),
     Entry(Some(<<1>>), Some(FullTweet("'b'")))}
LinkEntries ==
    {Entry(Some(<<1, 0>>), Some(FullLink("'a'"))),
     Entry(Some(<<1, 1>>), Some(BareLink("'b'")))}
Entries(s) == IF s = "tweet_store" THEN TweetEntries ELSE LinkEntries

Batches(s) == UNION {[1..n -> Entries(s)] : n \in 0..MaxBatch}

-----------------------------------------------------------------------------
(* LocalVectorStore *)

EmptyLookup == [k \in {} |-> 0]

Range(f) == {f[i] : i \in DOMAIN f}

\* _sanitize_metadata: a copy of the dict; a value that is no str, int, float,
\* bool, None, list or dict is replaced by its str().  Every value of the
\* model is a str, an int or None, so every value is copied as it is.
sanitize_metadata(m) == [k \in DOMAIN m |-> m[k]]

\* The test of the loop of add_items on one (embedding, metadata) pair: TRUE
\* when the pair goes to to_add_vectors / to_add_metadata
Accepted(s, lookup, e) ==
    /\ ~IsNone(e.embedding)
    /\ ~IsNone(e.metadata)
    /\ Get(Value(e.metadata), id_field(s)) # None
    /\ Str(Get(Value(e.metadata), id_field(s))) \notin DOMAIN lookup

\* The loop of add_items: the pairs it keeps, in batch order.  Every test
\* reads self.id_lookup, which the loop does not change.
to_add(s, lookup, batch) == SelectSeq(batch, LAMBDA e : Accepted(s, lookup, e))

to_add_vectors(kept) == [i \in DOMAIN kept |-> Value(kept[i].embedding)]
to_add_metadata(kept) == [i \in DOMAIN kept |-> sanitize_metadata(Value(kept[i].metadata))]

\* np.vstack raises ValueError when the rows differ in length
VstackRaises(vs) == \E i, j \in DOMAIN vs : Len(vs[i]) # Len(vs[j])

\* faiss.normalize_L2 on the stacked rows
NormalizeRows(vs) == [i \in DOMAIN vs |-> normalize_L2(vs[i])]

\* faiss index.add asserts that the rows have the dimension of the index
IndexAddRaises(vs) == \E i \in DOMAIN vs : Len(vs[i]) # EMBEDDING_DIMENSION

\* (mutant of AppendAll) the new dicts are put in front of the list
AppendAll_Front(s, md, lookup, metas) ==
    [metadata |-> metas \o md, id_lookup |-> lookup]

\* The loop under the lock: append each metadata dict and point its id at
\* its position, base_idx + offset
RECURSIVE AppendAll(_, _, _, _)
AppendAll(s, md, lookup, metas) ==
    IF metas = <<>> THEN [metadata |-> md, id_lookup |-> lookup]
    ELSE LET m == Head(metas)
         IN  AppendAll(s, Append(md, m),
                       (Str(m[id_field(s)]) :> Len(md)) @@ lookup,
                       Tail(metas))

\* json.dumps on one value of a metadata dict: the JSON text of a str, an
\* int, a bool or None
JsonText(v) ==
    CASE v = "'a'" -> "\"a\""
      [] v = "'b'" -> "\"b\""
      [] v = "''" -> "\"\""
      [] v = "'0'" -> "\"0\""
      [] v = "0" -> "0"
      [] v = "False" -> "false"
      [] v = None -> "null"
      [] v = "u" -> "\"u\""
      [] v = "t" -> "\"t\""
      [] v = "w" -> "\"w\""

\* json.loads on the JSON text of one value
JsonValue(x) ==
    CASE x = "\"a\"" -> "'a'"
      [] x = "\"b\"" -> "'b'"
      [] x = "\"\"" -> "''"
      [] x = "\"0\"" -> "'0'"
      [] x = "0" -> "0"
      [] x = "false" -> "False"
      [] x = "null" -> None
      [] x = "\"u\"" -> "u"
      [] x = "\"t\"" -> "t"
      [] x = "\"w\"" -> "w"

\* json.dumps(self.metadata): a JSON array of objects, in list order
json_dumps(md) == [i \in DOMAIN md |-> [k \in DOMAIN md[i] |-> JsonText(md[i][k])]]

\* json.loads(self.metadata_path.read_text())
json_loads(text) == [i \in DOMAIN text |-> [k \in DOMAIN text[i] |-> JsonValue(text[i][k])]]

\* (mutant of persist) only the index is written
persist_IndexOnly(mem) ==
    [index_faiss |-> Some(mem.index), metadata_json |-> <<>>, unreadable |-> {}]

\* _persist: write index.faiss, then metadata.json; a file written anew can
\* be read
persist(mem) ==
    [index_faiss |-> Some(mem.index), metadata_json |-> Some(json_dumps(mem.metadata)),
     unreadable |-> {}]

\* The directory of a store: the two files (None: no such file) and the
\* names of those whose bytes faiss.read_index / json.loads cannot read
NoFiles == [index_faiss |-> NoneValue, metadata_json |-> NoneValue, unreadable |-> {}]

\* A store opened on an empty directory
EmptyStore ==
    [index |-> <<>>, metadata |-> <<>>, id_lookup |-> EmptyLookup, files |-> NoFiles]

\* _load_index: the index of the file; a new IndexFlatIP without it or when
\* faiss.read_index raises
load_index(f) ==
    IF IsNone(f.index_faiss) \/ "index.faiss" \in f.unreadable THEN <<>>
    ELSE Value(f.index_faiss)

\* _load_metadata: the list of the file; [] without it or when json.loads
\* raises
load_metadata(f) ==
    IF IsNone(f.metadata_json) \/ "metadata.json" \in f.unreadable THEN <<>>
    ELSE json_loads(Value(f.metadata_json))

\* The dict comprehension of __init__: str(id) -> position for the items
\* whose id is truthy; a later item of the same id replaces an earlier one
load_lookup(s, md) ==
    LET keep == {i \in DOMAIN md : Truthy(Get(md[i], id_field(s)))}
        key(i) == Str(md[i][id_field(s)])
    IN  [k \in {key(i) : i \in keep} |->
            (CHOOSE i \in keep : key(i) = k /\ \A j \in keep : key(j) = k => j <= i) - 1]

\* LocalVectorStore.__init__ on a directory holding the files f
LocalVectorStore(s, f) ==
    LET md == load_metadata(f)
    IN  [index |-> load_index(f), metadata |-> md, id_lookup |-> load_lookup(s, md),
         files |-> f]

\* One store: its memory and its files
StoreOf(s) ==
    [index |-> index[s], metadata |-> metadata[s], id_lookup |-> id_lookup[s],
     files |-> files[s]]

\* add_items on store s in state store: the state it leaves, what it returns
\* and whether it raised instead of returning
add_items(s, store, batch) ==
    LET kept == to_add(s, store.id_lookup, batch)
        vs == to_add_vectors(kept)
        ms == to_add_metadata(kept)
    IN  IF kept = <<>>
        THEN [store |-> store, ret |-> 0, raised |-> FALSE]
        ELSE IF VstackRaises(vs) \/ IndexAddRaises(NormalizeRows(vs))
        THEN [store |-> store, ret |-> 0, raised |-> TRUE]
        ELSE LET app == AppendAll(s, store.metadata, store.id_lookup, ms)
                 mem == [index |-> store.index \o NormalizeRows(vs),
                         metadata |-> app.metadata,
                         id_lookup |-> app.id_lookup]
             IN  [store |-> [index |-> mem.index, metadata |-> mem.metadata,
                             id_lookup |-> mem.id_lookup, files |-> persist(mem)],
                  ret |-> Len(vs), raised |-> FALSE]

Min(a, b) == IF a < b THEN a ELSE b

\* seq[:n]
Prefix(seq, n) == SubSeq(seq, 1, Min(n, Len(seq)))

\* (mutant of IndexSearch) k distinct positions, in no order of similarity
IndexSearch_Unranked(idx, qv, k) ==
    {r \in [1..k -> 0..(Len(idx) - 1)] : \A i, j \in 1..k : i # j => r[i] # r[j]}

\* faiss IndexFlatIP.search(query_vector, k): every answer the library may
\* give.  An answer lists k distinct positions (0-based) by descending inner
\* product, and no position left out beats one listed.  The order among equal
\* inner products is the library's: the store adds no rule of its own.
IndexSearch(idx, qv, k) ==
    LET n == Len(idx)
        score == [p \in 0..(n - 1) |-> InnerProduct(idx[p + 1], qv)]
    IN  {r \in [1..k -> 0..(n - 1)] :
            /\ \A i, j \in 1..k : i # j => r[i] # r[j]
            /\ \A i, j \in 1..k : i < j => SimGE(score[r[i]], score[r[j]])
            /\ \A p \in 0..(n - 1) :
                 p \notin Range(r) => \A i \in 1..k : SimGE(score[r[i]], score[p])}

\* The loop of search over zip(indices[0], distances[0]): a copy of the
\* metadata at each position, with the score as its similarity
search_results(md, idx, qv, indices) ==
    LET inRange == SelectSeq(indices, LAMBDA p : ~(p < 0 \/ p >= Len(md)))
    IN  [i \in DOMAIN inRange |->
            ("similarity" :> InnerProduct(idx[inRange[i] + 1], qv)) @@ md[inRange[i] + 1]]

\* (mutant of search_raises) the length of the query is not checked
search_raises_Unchecked(store, embedding) == FALSE

\* (mutant of search_raises) the length of the query is checked before the
\* test for an empty index
search_raises_OnEmpty(store, embedding) ==
    Len(embedding) # EMBEDDING_DIMENSION

\* search raises when the store is not empty and the query has another
\* length than the index (the assertion of index.search)
search_raises(store, embedding) ==
    /\ Len(store.index) # 0
    /\ Len(embedding) # EMBEDDING_DIMENSION

\* The answers search may give when it does not raise
search(store, embedding, top_k) ==
    IF Len(store.index) = 0 THEN {[results |-> <<>>, indices |-> <<>>]}
    ELSE LET query_vector == normalize_L2(embedding)
         IN  {[results |-> search_results(store.metadata, store.index, query_vector, r),
               indices |-> r] :
                 r \in IndexSearch(store.index, query_vector, Min(top_k, Len(store.index)))}

-----------------------------------------------------------------------------
(* The sequential client: one call of add_items or search at a time *)

Threads == {"t1", "t2"}

TopKs == 1..MaxTopK

NoCall ==
    [op |-> "none", store |-> "tweet_store", batch |-> <<>>, embedding |-> <<>>,
     top_k |-> 0, ret |-> 0, results |-> <<>>, indices |-> <<>>, raised |-> FALSE,
     again |-> FALSE, before |-> 0, changed |-> FALSE, compared |-> 0,
     pre |-> [s \in Stores |-> EmptyStore]]

\* The locals of a thread's call: those of add_items, then those of search
\* (view: the index and the list as they were when index.search ran)
NoFrame ==
    [store |-> "tweet_store", batch |-> <<>>, i |-> 0, kept |-> <<>>, vectors |-> <<>>,
     base_idx |-> 0, offset |-> 0, ret |-> 0, raised |-> FALSE,
     embedding |-> <<>>, top_k |-> 0, early |-> FALSE, indices |-> <<>>,
     scores |-> <<>>, results |-> <<>>, j |-> 0, skipped |-> 0,
     view |-> [index |-> <<>>, metadata |-> <<>>]]

NoCalls ==
    [embed |-> 0, keyword |-> 0, search_tweets |-> 0, search_links |-> 0,
     format |-> 0, generate |-> 0, provider |-> 0, save |-> 0]

NoResponse ==
    [answer |-> "none", tweets |-> <<>>, links |-> <<>>, tweets_found |-> 0,
     links_found |-> 0, llm_time_ms |-> 0, tokens |-> 0]

\* The locals of RAGPipeline.query and of the methods it calls, the calls made
\* so far, and what the query gave its caller
NoQuery ==
    [embed_outcome |-> "pending", gen_outcome |-> "pending",
     save_outcome |-> "pending",
     query_embedding |-> NoneValue,
     raw_tweets |-> <<>>, raw_links |-> <<>>,
     tweet_results |-> <<>>, link_results |-> <<>>,
     keyword_limit |-> 0, keyword_rows |-> <<>>, context |-> <<>>,
     llm_result |-> [answer |-> "none", tokens |-> 0, time_ms |-> 0],
     logged |-> <<>>,
     calls |-> NoCalls, raised |-> FALSE, response |-> NoResponse]

Zero == [sgn |-> 0, num |-> 0, den |-> 1]
Half == [sgn |-> 1, num |-> 1, den |-> 4]

\* settings.MIN_SIMILARITY_THRESHOLD: 0, 0.5 (the default) and 1
Thresholds == {Zero, Half, One}

\* RAGPipeline.__init__: top_k, min_similarity and llm_available, from the
\* settings
Envs ==
    [top_k : TopKs, min_similarity : Thresholds, llm_available : BOOLEAN]

NoEnv == [top_k |-> 1, min_similarity |-> Half, llm_available |-> FALSE]

\* LocalVectorStore.__init__ on an empty directory, twice (VectorStoreManager)
InitStores ==
    /\ index = [s \in Stores |-> <<>>]
    /\ metadata = [s \in Stores |-> <<>>]
    /\ id_lookup = [s \in Stores |-> EmptyLookup]
    /\ files = [s \in Stores |-> NoFiles]

ThreadsIdle ==
    /\ pc = [t \in Threads |-> "idle"]
    /\ frame = [t \in Threads |-> NoFrame]
    /\ lock = [s \in Stores |-> NoThread]

PipelineIdle ==
    /\ qpc = "Idle"
    /\ qs = NoQuery
    /\ env = NoEnv

\* EmbeddingGenerator before a run: the flags embedding_generated of the rows
\* of tweets / linked_content (store -> the ids flagged TRUE), the dimension
\* of the vectors its model gives, and the locals of process_tweets /
\* process_links
NoIngest ==
    [pc |-> "idle", store |-> "tweet_store", flagged |-> [s \in Stores |-> {}],
     model_dim |-> EMBEDDING_DIMENSION, batch_size |-> 1,
     pending |-> <<>>, i |-> 0, batch |-> <<>>, embeddings |-> <<>>, j |-> 0,
     to_store |-> <<>>, processed |-> 0, failed |-> 0]

\* The callers of POST /capture whose requests may overlap
Clients == {"c1", "c2"}

\* The capture service before any request: no tweets document and no queue
\* document in Firestore, no message in Pub/Sub, every caller and the retry
\* worker idle
NoCapture ==
    [doc |-> [exists |-> FALSE, message_id |-> NoneValue],
     queue |-> <<>>,
     published |-> 0,
     started |-> 0,
     client |-> [c \in Clients |-> [pc |-> "idle", status |-> "none", sent |-> 0]],
     worker |-> [pc |-> "idle", items |-> <<>>, k |-> 0]]

\* No embedding run and no capture request
ServicesIdle ==
    /\ ing = NoIngest
    /\ cap = NoCapture

Init ==
    /\ InitStores
    /\ last = NoCall
    /\ ThreadsIdle
    /\ PipelineIdle
    /\ ServicesIdle

\* The records of both stores together (what the bound MaxRecords caps)
TotalRecords == Len(metadata["tweet_store"]) + Len(metadata["link_store"])

SetStore(s, store) ==
    /\ index' = [index EXCEPT ![s] = store.index]
    /\ metadata' = [metadata EXCEPT ![s] = store.metadata]
    /\ id_lookup' = [id_lookup EXCEPT ![s] = store.id_lookup]
    /\ files' = [files EXCEPT ![s] = store.files]

\* The store that is not s
OtherStore(s) == IF s = "tweet_store" THEN "link_store" ELSE "tweet_store"

\* (mutant of AddItems) the manager hands the batch to the other store
AddItems_Misrouted(s, batch) ==
    /\ TotalRecords + Len(batch) <= MaxRecords
    /\ \E o \in {OtherStore(s)} : \E r \in {add_items(o, StoreOf(o), batch)} :
           /\ SetStore(o, r.store)
           /\ last' = [NoCall EXCEPT
                         !.op = "add_items", !.store = s, !.batch = batch,
                         !.ret = r.ret, !.raised = r.raised,
                         !.before = Len(metadata[s]),
                         !.again = (last.op = "add_items" /\ last.store = s
                                        /\ last.batch = batch),
                         !.changed = (r.store # StoreOf(o)),
                         !.pre = [x \in Stores |-> StoreOf(x)]]
    /\ UNCHANGED <<pc, frame, lock, qpc, qs, env, ing, cap>>

\* VectorStoreManager.add_tweet_embeddings / add_link_embeddings
AddItems(s, batch) ==
    /\ TotalRecords + Len(batch) <= MaxRecords
    /\ \E r \in {add_items(s, StoreOf(s), batch)} :
           /\ SetStore(s, r.store)
           /\ last' = [NoCall EXCEPT
                         !.op = "add_items", !.store = s, !.batch = batch,
                         !.ret = r.ret, !.raised = r.raised,
                         !.before = Len(metadata[s]),
                         !.again = (last.op = "add_items" /\ last.store = s
                                        /\ last.batch = batch),
                         !.changed = (r.store # StoreOf(s)),
                         !.pre = [x \in Stores |-> StoreOf(x)]]
    /\ UNCHANGED <<pc, frame, lock, qpc, qs, env, ing, cap>>

\* VectorStoreManager.search_tweets / search_links
Search(s, embedding, top_k) ==
    /\ IF search_raises(StoreOf(s), embedding)
       THEN last' = [NoCall EXCEPT
                       !.op = "search", !.store = s, !.embedding = embedding,
                       !.top_k = top_k, !.before = Len(metadata[s]),
                       !.raised = TRUE, !.pre = [x \in Stores |-> StoreOf(x)]]
       ELSE \E a \in search(StoreOf(s), embedding, top_k) :
              last' = [NoCall EXCEPT
                         !.op = "search", !.store = s, !.embedding = embedding,
                         !.top_k = top_k, !.before = Len(metadata[s]),
                         !.results = a.results,
                         !.indices = a.indices, !.compared = Len(index[s]),
                         !.pre = [x \in Stores |-> StoreOf(x)]]
    /\ UNCHANGED <<index, metadata, id_lookup, files, pc, frame, lock, qpc, qs, env, ing, cap>>

\* VectorStoreManager.__init__ in a new process: both stores are opened on
\* the directories the process before left
Reopen ==
    /\ \E opened \in {[s \in Stores |-> LocalVectorStore(s, files[s])]} :
           /\ index' = [s \in Stores |-> opened[s].index]
           /\ metadata' = [s \in Stores |-> opened[s].metadata]
           /\ id_lookup' = [s \in Stores |-> opened[s].id_lookup]
    /\ last' = [NoCall EXCEPT !.op = "open", !.before = TotalRecords]
    /\ UNCHANGED <<files, pc, frame, lock, qpc, qs, env, ing, cap>>

Next ==
    \/ \E s \in Stores : \E batch \in Batches(s) : AddItems(s, batch)
    \/ \E s \in Stores : \E e \in QueryVectors : \E k \in TopKs : Search(s, e, k)
    \/ Reopen

Spec == Init /\ [][Next]_vars

-----------------------------------------------------------------------------
(* Claims on the sequential store *)

\* The ids of a list of metadata dicts of store s, as str()
IdsOf(s, md) == [i \in DOMAIN md |-> Str(md[i][id_field(s)])]

\* An entry whose vector has another length than the store's dimension
Mismatched(e) == ~IsNone(e.embedding) /\ Len(Value(e.embedding)) # EMBEDDING_DIMENSION

\* An entry add_items is to store: vector and id present, vector of the
\* store's dimension
ValidEntry(s, e) ==
    /\ ~IsNone(e.embedding) /\ ~IsNone(e.metadata)
    /\ Len(Value(e.embedding)) = EMBEDDING_DIMENSION
    /\ Get(Value(e.metadata), id_field(s)) # None

\* C1: calling add_items again with the batch of the call before returns 0
\* and leaves the records, the index, the id->position table and the files
\* as they were.
C1_IdempotentIngestion ==
    (last.op = "add_items" /\ last.again) =>
        (~last.raised /\ last.ret = 0 /\ ~last.changed)

\* C2: in every state ids are unique within a store, and the size of the
\* id->position table, the number of records and the size of the index agree.
C2_CollectionInvariant ==
    \A s \in Stores :
        /\ \A i, j \in DOMAIN metadata[s] :
             i # j => IdsOf(s, metadata[s])[i] # IdsOf(s, metadata[s])[j]
        /\ Cardinality(DOMAIN id_lookup[s]) = Len(metadata[s])
        /\ Len(metadata[s]) = Len(index[s])

\* C4: an add_items batch with an entry of the wrong vector length is not
\* aborted: the call returns, every valid entry of the batch is in the store,
\* the returned count is the growth of the store, the id of a mismatched entry
\* is not in the table unless a valid entry brought it, and every stored
\* vector has the store's dimension.
C4_DimensionRejectionOnInsert ==
    (last.op = "add_items" /\ \E i \in DOMAIN last.batch : Mismatched(last.batch[i])) =>
        LET s == last.store
        IN  /\ ~last.raised
            /\ \A i \in DOMAIN last.batch :
                 ValidEntry(s, last.batch[i]) =>
                     Str(Value(last.batch[i].metadata)[id_field(s)]) \in DOMAIN id_lookup[s]
            /\ last.ret = Len(metadata[s]) - last.before
            /\ \A p \in DOMAIN index[s] : Len(index[s][p]) = EMBEDDING_DIMENSION

C6_SearchRanking ==
    (last.op = "search" /\ Len(last.embedding) = EMBEDDING_DIMENSION) =>
        LET s == last.store
            n == Len(metadata[s])
            k == Min(last.top_k, n)
            qv == normalize_L2(last.embedding)
            score(p) == InnerProduct(index[s][p + 1], qv)
            Before(p1, p2) ==
                \/ SimLess(score(p2), score(p1))
                \/ score(p1) = score(p2) /\ p1 < p2
        IN  /\ ~last.raised
            /\ Len(last.results) = k /\ Len(last.indices) = k
            /\ \A i \in 1..k :
                 last.results[i] =
                     ("similarity" :> score(last.indices[i])) @@ metadata[s][last.indices[i] + 1]
            /\ \A i, j \in 1..k : i < j => Before(last.indices[i], last.indices[j])
            /\ \A p \in 0..(n - 1) :
                 p \notin Range(last.indices) =>
                     \A i \in 1..k : Before(last.indices[i], p)

-----------------------------------------------------------------------------
(* Concurrent clients: each thread runs one add_items call on the tweet     *)
(* store.  A step is a stretch of the call between two points where another *)
(* thread can see or change what the call reads: the loop over the batch    *)
(* reads self.id_lookup once per entry, outside the lock; the statements    *)
(* under the lock change the index, then the list and the table entry by    *)
(* entry.                                                                   *)

ConcEntries ==
    {Entry(Some(<<1, 0>>), Some(FullTweet("'a'"))),
     Entry(Some(<<2, 0>>), Some(FullTweet("'b'"))),
     Entry(Some(<<1>>), Some(FullTweet("'b'")))}

ConcBatches == UNION {[1..n -> ConcEntries] : n \in 0..MaxBatch}

Return(t, n) ==
    /\ pc' = [pc EXCEPT ![t] = "done"]
    /\ frame' = [frame EXCEPT ![t].ret = n]

Raise(t) ==
    /\ pc' = [pc EXCEPT ![t] = "done"]
    /\ frame' = [frame EXCEPT ![t].raised = TRUE]

\* The call, up to the first iteration of the loop; on an empty batch the
\* loop does nothing and `if not to_add_vectors: return 0` returns
AddBegin(t, s, batch) ==
    /\ pc[t] = "idle"
    /\ IF batch = <<>>
       THEN /\ pc' = [pc EXCEPT ![t] = "done"]
            /\ frame' = [frame EXCEPT ![t] = [NoFrame EXCEPT !.store = s]]
       ELSE /\ pc' = [pc EXCEPT ![t] = "filter"]
            /\ frame' = [frame EXCEPT ![t] =
                            [NoFrame EXCEPT !.store = s, !.batch = batch, !.i = 1]]
    /\ UNCHANGED <<index, metadata, id_lookup, files, last, lock, qpc, qs, env, ing, cap>>

\* One iteration of the loop over zip(embeddings, metadatas); after the last
\* one, `if not to_add_vectors: return 0`
AddFilter(t) ==
    /\ pc[t] = "filter"
    /\ LET f == frame[t]
           e == f.batch[f.i]
           kept == IF Accepted(f.store, id_lookup[f.store], e)
                   THEN Append(f.kept, e) ELSE f.kept
       IN  IF f.i < Len(f.batch)
           THEN /\ frame' = [frame EXCEPT ![t].kept = kept, ![t].i = f.i + 1]
                /\ pc' = pc
           ELSE IF kept = <<>>
           THEN /\ frame' = [frame EXCEPT ![t].kept = kept]
                /\ pc' = [pc EXCEPT ![t] = "done"]
           ELSE /\ frame' = [frame EXCEPT ![t].kept = kept]
                /\ pc' = [pc EXCEPT ![t] = "stacked"]
    /\ UNCHANGED <<index, metadata, id_lookup, files, last, lock, qpc, qs, env, ing, cap>>

\* np.vstack and faiss.normalize_L2, then `with self._lock:` and
\* self.index.add(vectors), base_idx = len(self.metadata).  An exception
\* under the lock releases it.
AddLock(t) ==
    /\ pc[t] = "stacked"
    /\ LET f == frame[t]
           vs == to_add_vectors(f.kept)
       IN  IF VstackRaises(vs)
           THEN Raise(t) /\ UNCHANGED <<index, lock>>
           ELSE /\ lock[f.store] = NoThread
                /\ IF IndexAddRaises(NormalizeRows(vs))
                   THEN Raise(t) /\ UNCHANGED <<index, lock>>
                   ELSE /\ lock' = [lock EXCEPT ![f.store] = t]
                        /\ index' = [index EXCEPT ![f.store] = @ \o NormalizeRows(vs)]
                        /\ frame' = [frame EXCEPT
                                       ![t].vectors = NormalizeRows(vs),
                                       ![t].base_idx = Len(metadata[f.store]),
                                       ![t].offset = 0]
                        /\ pc' = [pc EXCEPT ![t] = "locked"]
    /\ UNCHANGED <<metadata, id_lookup, files, last, qpc, qs, env, ing, cap>>

\* One iteration of the loop under the lock
AddAppend(t) ==
    /\ pc[t] = "locked"
    /\ LET f == frame[t]
           s == f.store
           m == to_add_metadata(f.kept)[f.offset + 1]
       IN  /\ f.offset < Len(f.kept)
           /\ metadata' = [metadata EXCEPT ![s] = Append(@, m)]
           /\ id_lookup' = [id_lookup EXCEPT
                              ![s] = (Str(m[id_field(s)]) :> (f.base_idx + f.offset)) @@ @]
           /\ frame' = [frame EXCEPT ![t].offset = f.offset + 1]
    /\ UNCHANGED <<index, files, last, pc, lock, qpc, qs, env, ing, cap>>

\* self._persist(), the end of the with block, return len(to_add_vectors)
AddPersist(t) ==
    /\ pc[t] = "locked"
    /\ LET f == frame[t]
           s == f.store
       IN  /\ f.offset = Len(f.kept)
           /\ files' = [files EXCEPT
                          ![s] = persist([index |-> index[s], metadata |-> metadata[s]])]
           /\ lock' = [lock EXCEPT ![s] = NoThread]
           /\ Return(t, Len(f.kept))
    /\ UNCHANGED <<index, metadata, id_lookup, last, qpc, qs, env, ing, cap>>

NextConc ==
    \/ \E t \in Threads : \E batch \in ConcBatches : AddBegin(t, "tweet_store", batch)
    \/ \E t \in Threads : AddFilter(t)
    \/ \E t \in Threads : AddLock(t)
    \/ \E t \in Threads : AddAppend(t)
    \/ \E t \in Threads : AddPersist(t)

SpecConc == Init /\ [][NextConc]_vars

\* The outcome of running the two calls one after the other, first then second
Serial(first, second) ==
    LET s == "tweet_store"
        empty == [index |-> <<>>, metadata |-> <<>>, id_lookup |-> EmptyLookup,
                  files |-> NoFiles]
        r1 == add_items(s, empty, frame[first].batch)
        r2 == add_items(s, r1.store, frame[second].batch)
    IN  [store |-> r2.store,
         ret |-> (first :> r1.ret) @@ (second :> r2.ret),
         raised |-> (first :> r1.raised) @@ (second :> r2.raised)]

Outcome ==
    [store |-> StoreOf("tweet_store"),
     ret |-> [t \in Threads |-> frame[t].ret],
     raised |-> [t \in Threads |-> frame[t].raised]]

\* C3: when both concurrent add_items calls have ended, the store and the two
\* results are those of running the calls one after the other in some order;
\* an id both carried is stored once.
C3_SerializedWrites ==
    (\A t \in Threads : pc[t] = "done") =>
        (Outcome = Serial("t1", "t2") \/ Outcome = Serial("t2", "t1"))

-----------------------------------------------------------------------------
(* A writer and a reader: thread t1 runs one add_items call and thread t2   *)
(* one search call on the tweet store, which an earlier add_items call      *)
(* (kept in `last`) has filled.  search reads index.ntotal outside the      *)
(* lock, runs index.search under it, and reads self.metadata entry by entry *)
(* after it has released it.                                                *)

\* search up to the lock: `if self.index.ntotal == 0: return []`, then the
\* reshape and normalize_L2 of the query
SearchBegin(t, s, embedding, top_k) ==
    /\ pc[t] = "idle"
    /\ IF Len(index[s]) = 0
       THEN /\ pc' = [pc EXCEPT ![t] = "done"]
            /\ frame' = [frame EXCEPT ![t] =
                            [NoFrame EXCEPT !.store = s, !.embedding = embedding,
                                            !.top_k = top_k, !.early = TRUE]]
       ELSE /\ pc' = [pc EXCEPT ![t] = "normalized"]
            /\ frame' = [frame EXCEPT ![t] =
                            [NoFrame EXCEPT !.store = s, !.embedding = embedding,
                                            !.top_k = top_k]]
    /\ UNCHANGED <<index, metadata, id_lookup, files, last, lock, qpc, qs, env, ing, cap>>

\* (mutant of SearchLock) index.search runs without the lock
SearchLock_NoLock(t) ==
    /\ pc[t] = "normalized"
    /\ LET f == frame[t]
           s == f.store
           qv == normalize_L2(f.embedding)
       IN  IF Len(f.embedding) # EMBEDDING_DIMENSION
           THEN Raise(t)
           ELSE \E r \in IndexSearch(index[s], qv, Min(f.top_k, Len(index[s]))) :
                  /\ frame' = [frame EXCEPT
                                 ![t].indices = r,
                                 ![t].scores = [i \in DOMAIN r |->
                                                   InnerProduct(index[s][r[i] + 1], qv)],
                                 ![t].view = [index |-> index[s], metadata |-> metadata[s]],
                                 ![t].j = 1]
                  /\ pc' = [pc EXCEPT ![t] = "results"]
    /\ UNCHANGED <<index, metadata, id_lookup, files, last, lock, qpc, qs, env, ing, cap>>

\* `with self._lock:` top_k = min(top_k, ntotal) and index.search, which
\* raises on a query of another length than the index; the lock is taken
\* when no thread holds it and released at the end of the block
SearchLock(t) ==
    /\ pc[t] = "normalized"
    /\ lock[frame[t].store] = NoThread
    /\ LET f == frame[t]
           s == f.store
           qv == normalize_L2(f.embedding)
       IN  IF Len(f.embedding) # EMBEDDING_DIMENSION
           THEN Raise(t)
           ELSE \E r \in IndexSearch(index[s], qv, Min(f.top_k, Len(index[s]))) :
                  /\ frame' = [frame EXCEPT
                                 ![t].indices = r,
                                 ![t].scores = [i \in DOMAIN r |->
                                                   InnerProduct(index[s][r[i] + 1], qv)],
                                 ![t].view = [index |-> index[s], metadata |-> metadata[s]],
                                 ![t].j = 1]
                  /\ pc' = [pc EXCEPT ![t] = "results"]
    /\ UNCHANGED <<index, metadata, id_lookup, files, last, lock, qpc, qs, env, ing, cap>>

\* One iteration of the loop over zip(indices[0], distances[0]), outside the
\* lock; after the last one, return results
SearchResult(t) ==
    /\ pc[t] = "results"
    /\ LET f == frame[t]
           s == f.store
           idx == f.indices[f.j]
           out == idx < 0 \/ idx >= Len(metadata[s])
           item == ("similarity" :> f.scores[f.j]) @@ metadata[s][idx + 1]
       IN  /\ frame' = [frame EXCEPT
                          ![t].results = IF out THEN @ ELSE Append(@, item),
                          ![t].skipped = IF out THEN @ + 1 ELSE @,
                          ![t].j = f.j + 1]
           /\ pc' = [pc EXCEPT ![t] = IF f.j = Len(f.indices) THEN "done" ELSE "results"]
    /\ UNCHANGED <<index, metadata, id_lookup, files, last, lock, qpc, qs, env, ing, cap>>

\* The tweet store as an earlier add_items call left it
InitReadWrite ==
    /\ \E batch \in ConcBatches :
         LET r == add_items("tweet_store", EmptyStore, batch)
         IN  /\ index = [s \in Stores |-> IF s = "tweet_store" THEN r.store.index ELSE <<>>]
             /\ metadata = [s \in Stores |->
                              IF s = "tweet_store" THEN r.store.metadata ELSE <<>>]
             /\ id_lookup = [s \in Stores |->
                               IF s = "tweet_store" THEN r.store.id_lookup ELSE EmptyLookup]
             /\ files = [s \in Stores |-> IF s = "tweet_store" THEN r.store.files ELSE NoFiles]
             /\ last = [NoCall EXCEPT !.op = "add_items", !.batch = batch,
                                      !.ret = r.ret, !.raised = r.raised]
    /\ ThreadsIdle
    /\ PipelineIdle
    /\ ServicesIdle

NextReadWrite ==
    \/ \E batch \in ConcBatches : AddBegin("t1", "tweet_store", batch)
    \/ AddFilter("t1")
    \/ AddLock("t1")
    \/ AddAppend("t1")
    \/ AddPersist("t1")
    \/ \E e \in QueryVectors : \E k \in TopKs : SearchBegin("t2", "tweet_store", e, k)
    \/ SearchLock("t2")
    \/ SearchResult("t2")

SpecReadWrite == InitReadWrite /\ [][NextReadWrite]_vars

\* The index and the list of the tweet store before the batch of t1 and
\* after it (the same when the call of t1 raises or stores nothing)
ViewBefore ==
    LET seed == add_items("tweet_store", EmptyStore, last.batch).store
    IN  [index |-> seed.index, metadata |-> seed.metadata]

ViewAfter ==
    LET seed == add_items("tweet_store", EmptyStore, last.batch).store
        r == add_items("tweet_store", seed, frame["t1"].batch).store
    IN  [index |-> r.index, metadata |-> r.metadata]

\* C19: a search that runs while another thread adds a batch sees the store
\* either as it was before the batch or as it is after it: the index and the
\* list index.search ran against are those of one of the two; every matched
\* position has a metadata record, none is passed over; each result is the
\* score of a position with the metadata stored at that position; a search
\* that found no vector returns [] and the store before the batch was empty.
C19_NoPartialWriteVisibility ==
    LET f == frame["t2"]
    IN  /\ (pc["t2"] \in {"results", "done"} /\ ~f.early /\ ~f.raised) =>
              /\ f.view \in {ViewBefore, ViewAfter}
              /\ Len(f.view.index) = Len(f.view.metadata)
              /\ \A i \in DOMAIN f.indices : f.indices[i] < Len(f.view.metadata)
              /\ f.skipped = 0
              /\ f.results =
                     Prefix(search_results(f.view.metadata, f.view.index,
                                           normalize_L2(f.embedding), f.indices),
                            f.j - 1)
        /\ (pc["t2"] = "done" /\ f.early) =>
              (f.results = <<>> /\ ViewBefore.index = <<>>)

\* a search has returned the records of the batch while the adding thread
\* was still inside add_items, or those before it after the batch was begun
C19_Witness ==
    /\ pc["t2"] = "done"
    /\ frame["t2"].results # <<>>
    /\ frame["t2"].view = ViewAfter
    /\ ViewAfter # ViewBefore
    /\ ViewBefore.index # <<>>

-----------------------------------------------------------------------------
(* RAGPipeline.  A query runs as a chain of method calls; each action is one *)
(* of them, with the outcome of the provider it calls drawn from the         *)
(* outcomes the provider can have.  The stores do not change while the       *)
(* pipeline runs: they hold what add_items calls left before.                *)

MAX_CONTEXT_TOKENS == 2      \* settings.MAX_CONTEXT_TOKENS (4000), scaled down
ContextEntries == 10         \* tweet_results[:10], link_results[:10]
KEYWORD_DEFAULT_LIMIT == 50  \* keyword_search(self, query, limit=50)

\* What the embedding provider (embedder.embed_query) may do
EmbedOutcomes ==
    {[kind |-> "raise", v |-> <<>>], [kind |-> "none", v |-> <<>>]}
        \cup {[kind |-> "vector", v |-> v] : v \in QueryVectors}

\* RAGPipeline.embed_query: the embedding as a list, None when the provider
\* gave None or raised
embed_query(o) == IF o.kind = "vector" THEN Some(o.v) ELSE NoneValue

\* (mutant of UseKeyword) the keyword search runs for every query
UseKeyword_Always(query_embedding) == TRUE

\* `if not query_embedding` of hybrid_search: None, or an empty list
UseKeyword(query_embedding) ==
    IsNone(query_embedding) \/ Len(Value(query_embedding)) = 0

\* A row of the tweets table, as keyword_search selects it
Row(i) == [tweet_id |-> i, author_username |-> "u", text |-> "t", rank |-> "r"]

\* What db.execute_query may do in keyword_search: raise, or give at most
\* `limit` rows
KeywordOutcomes(limit) ==
    {[kind |-> "raise", rows |-> <<>>]}
        \cup {[kind |-> "rows", rows |-> r] :
                r \in {x \in {<<>>, <<Row("'a'")>>, <<Row("'a'"), Row("'b'")>>} :
                         Len(x) <= limit}}

\* keyword_search: `results or []`, and [] when the database raised
keyword_search(o) == IF o.kind = "rows" THEN o.rows ELSE <<>>

\* (mutant of filtered) the filter keeps a result only above the threshold
filtered_Strict(results, min_similarity) ==
    SelectSeq(results, LAMBDA item : SimLess(min_similarity, item.similarity))

\* The filter of vector_search_tweets / vector_search_links
filtered(results, min_similarity) ==
    SelectSeq(results, LAMBDA item : SimGE(item.similarity, min_similarity))

\* The vector of np.asarray(query_embedding, dtype="float32")
np_query(query_embedding) == Value(query_embedding)

\* (mutant of NoEvidence) the test is on None, which a list never is
NoEvidence_IsNone(tweet_results, link_results) == FALSE

\* `if not tweet_results and not link_results` of query
NoEvidence(tweet_results, link_results) ==
    tweet_results = <<>> /\ link_results = <<>>

Digit(i) ==
    CASE i = 1 -> "1" [] i = 2 -> "2" [] i = 3 -> "3" [] i = 4 -> "4" [] i = 5 -> "5"
      [] i = 6 -> "6" [] i = 7 -> "7" [] i = 8 -> "8" [] i = 9 -> "9" [] OTHER -> "10"

RECURSIVE Concat(_)
Concat(parts) == IF parts = <<>> THEN <<>> ELSE Head(parts) \o Concat(Tail(parts))

\* format_context indexes tweet['author_username'], tweet['text'] and
\* link['url']: a dict without the key raises KeyError
FormatRaises(tweet_results, link_results) ==
    \/ \E i \in DOMAIN Prefix(tweet_results, ContextEntries) :
         ~HasKey(tweet_results[i], "author_username") \/ ~HasKey(tweet_results[i], "text")
    \/ \E i \in DOMAIN Prefix(link_results, ContextEntries) :
         ~HasKey(link_results[i], "url")

\* The text of format_context, a character a tuple element.  A fixed string
\* of the source is cut to one or two characters, a formatted field to one.
TweetsHeader == <<"T", "\n">>
LinksHeader == <<"\n", "L", "\n">>
TruncationMarker == <<"\n", "\n", "[", "]">>

TweetPart(i, tweet) ==
    <<"[", Digit(i), tweet.author_username, tweet.text, "\n">>

LinkPart(i, link) ==
    <<"[", Digit(i), link.url, "\n">>

\* format_context up to `context = "".join(context_parts)`
context_parts(tweet_results, link_results) ==
    LET tweets == Prefix(tweet_results, ContextEntries)
        links == Prefix(link_results, ContextEntries)
    IN  (IF tweet_results # <<>>
         THEN <<TweetsHeader>> \o [i \in DOMAIN tweets |-> TweetPart(i, tweets[i])]
         ELSE <<>>)
        \o
        (IF link_results # <<>>
         THEN <<LinksHeader>> \o [i \in DOMAIN links |-> LinkPart(i, links[i])]
         ELSE <<>>)

\* (mutant of format_context) the text is cut and no marker is appended
format_context_NoMarker(tweet_results, link_results, max_tokens) ==
    LET context == Concat(context_parts(tweet_results, link_results))
    IN  Prefix(context, max_tokens * 4)

format_context(tweet_results, link_results, max_tokens) ==
    LET context == Concat(context_parts(tweet_results, link_results))
        estimated_tokens == Len(context) \div 4
    IN  IF estimated_tokens > max_tokens
        THEN Prefix(context, max_tokens * 4) \o TruncationMarker
        ELSE context

\* (mutant of generate_answer) the dict of the except branch carries the time
\* spent before the provider failed
generate_answer_Elapsed(llm_available, o) ==
    IF ~llm_available
    THEN [answer |-> "LLM not available", tokens |-> 0, time_ms |-> 0]
    ELSE IF o = "ok"
    THEN [answer |-> "text", tokens |-> 1, time_ms |-> 1]
    ELSE [answer |-> "Error generating answer", tokens |-> 0, time_ms |-> 1]

\* generate_answer: the dict it returns; llm_result.get('time_ms', 0) is 0
\* where the dict has no time_ms
generate_answer(llm_available, o) ==
    IF ~llm_available
    THEN [answer |-> "LLM not available", tokens |-> 0, time_ms |-> 0]
    ELSE IF o = "ok"
    THEN [answer |-> "text", tokens |-> 1, time_ms |-> 1]
    ELSE [answer |-> "Error generating answer", tokens |-> 0, time_ms |-> 0]

\* _save_query: the rows written to user_queries.  t['tweet_id'] and l['id']
\* raise KeyError on a dict without the key; that and a failure of the
\* database are caught and logged.
save_query(tweet_results, link_results, o) ==
    LET tweets == Prefix(tweet_results, ContextEntries)
        links == Prefix(link_results, ContextEntries)
    IN  IF \/ \E i \in DOMAIN tweets : ~HasKey(tweets[i], "tweet_id")
           \/ \E i \in DOMAIN links : ~HasKey(links[i], "id")
           \/ o = "raise"
        THEN <<>>
        ELSE <<[results_count |-> Len(tweet_results) + Len(link_results),
                tweets |-> [i \in DOMAIN tweets |-> tweets[i].tweet_id],
                links |-> [i \in DOMAIN links |-> links[i].id]]>>

\* The dict query returns after generation
result(tweet_results, link_results, llm_result) ==
    [answer |-> llm_result.answer,
     tweets |-> Prefix(tweet_results, MAX_DISPLAY_RESULTS),
     links |-> Prefix(link_results, MAX_DISPLAY_RESULTS),
     tweets_found |-> Len(tweet_results),
     links_found |-> Len(link_results),
     llm_time_ms |-> llm_result.time_ms,
     tokens |-> llm_result.tokens]

NoContentResponse ==
    [answer |-> "No relevant content found", tweets |-> <<>>, links |-> <<>>,
     tweets_found |-> 0, links_found |-> 0, llm_time_ms |-> 0, tokens |-> 0]

\* The stores as an earlier add_items call on each left them, and a pipeline
\* built from some settings
InitQuery ==
    /\ \E bt \in Batches("tweet_store") : \E bl \in Batches("link_store") :
         LET st == [s \in Stores |->
                      add_items(s, EmptyStore, IF s = "tweet_store" THEN bt ELSE bl).store]
         IN  /\ index = [s \in Stores |-> st[s].index]
             /\ metadata = [s \in Stores |-> st[s].metadata]
             /\ id_lookup = [s \in Stores |-> st[s].id_lookup]
             /\ files = [s \in Stores |-> st[s].files]
    /\ last = NoCall
    /\ ThreadsIdle
    /\ qpc = "Idle"
    /\ qs = NoQuery
    /\ env \in Envs
    /\ ServicesIdle

QueryFrame == <<index, metadata, id_lookup, files, last, pc, frame, lock, env, ing, cap>>

Called(name) == [qs.calls EXCEPT ![name] = @ + 1]

\* query -> hybrid_search -> embed_query, and the branch on its result
EmbedQuery(o) ==
    /\ qpc = "Idle"
    /\ qs' = [qs EXCEPT !.embed_outcome = o.kind,
                        !.query_embedding = embed_query(o),
                        !.calls = Called("embed")]
    /\ qpc' = IF UseKeyword(embed_query(o)) THEN "keyword_search"
              ELSE "vector_search_tweets"
    /\ UNCHANGED QueryFrame

\* (mutant of KeywordSearch) keyword_search is called without a limit and
\* takes its default
KeywordSearch_DefaultLimit(o) ==
    /\ qpc = "keyword_search"
    /\ qs' = [qs EXCEPT !.keyword_limit = KEYWORD_DEFAULT_LIMIT,
                        !.keyword_rows = o.rows,
                        !.tweet_results = keyword_search(o),
                        !.link_results = <<>>,
                        !.calls = Called("keyword")]
    /\ qpc' = "searched"
    /\ UNCHANGED QueryFrame

\* hybrid_search: limit = limit or self.top_k; tweet_results =
\* self.keyword_search(query, limit); return tweet_results, []
KeywordSearch(o) ==
    /\ qpc = "keyword_search"
    /\ qs' = [qs EXCEPT !.keyword_limit = env.top_k,
                        !.keyword_rows = o.rows,
                        !.tweet_results = keyword_search(o),
                        !.link_results = <<>>,
                        !.calls = Called("keyword")]
    /\ qpc' = "searched"
    /\ UNCHANGED QueryFrame

\* vector_search_tweets / vector_search_links: the search of the store, [] when
\* it raises, and the filter
VectorSearch(s, answer) ==
    LET q == np_query(qs.query_embedding)
        raw == IF search_raises(StoreOf(s), q) THEN <<>> ELSE answer.results
        kept == filtered(raw, env.min_similarity)
    IN  IF s = "tweet_store"
        THEN /\ qpc = "vector_search_tweets"
             /\ qs' = [qs EXCEPT !.raw_tweets = raw, !.tweet_results = kept,
                                 !.calls = Called("search_tweets")]
             /\ qpc' = "vector_search_links"
        ELSE /\ qpc = "vector_search_links"
             /\ qs' = [qs EXCEPT !.raw_links = raw, !.link_results = kept,
                                 !.calls = Called("search_links")]
             /\ qpc' = "searched"

VectorSearchTweets ==
    /\ qpc = "vector_search_tweets"
    /\ \E a \in search(StoreOf("tweet_store"), np_query(qs.query_embedding), env.top_k) :
         VectorSearch("tweet_store", a)
    /\ UNCHANGED QueryFrame

VectorSearchLinks ==
    /\ qpc = "vector_search_links"
    /\ \E a \in search(StoreOf("link_store"), np_query(qs.query_embedding), env.top_k) :
         VectorSearch("link_store", a)
    /\ UNCHANGED QueryFrame

\* query: no result in either set, the fixed answer
NoContent ==
    /\ qpc = "searched"
    /\ NoEvidence(qs.tweet_results, qs.link_results)
    /\ qs' = [qs EXCEPT !.response = NoContentResponse]
    /\ qpc' = "Done"
    /\ UNCHANGED QueryFrame

\* query: context = self.format_context(tweet_results, link_results); a
\* KeyError of format_context leaves query
FormatContext ==
    /\ qpc = "searched"
    /\ ~NoEvidence(qs.tweet_results, qs.link_results)
    /\ IF FormatRaises(qs.tweet_results, qs.link_results)
       THEN /\ qs' = [qs EXCEPT !.raised = TRUE, !.calls = Called("format")]
            /\ qpc' = "Done"
       ELSE /\ qs' = [qs EXCEPT
                        !.context = format_context(qs.tweet_results, qs.link_results,
                                                   MAX_CONTEXT_TOKENS),
                        !.calls = Called("format")]
            /\ qpc' = "generate"
    /\ UNCHANGED QueryFrame

\* (mutant of GenerateAnswer) a failed generation is tried again
GenerateAnswer_Retry(o) ==
    /\ qpc = "generate"
    /\ qs' = [qs EXCEPT
                !.llm_result = generate_answer(env.llm_available, o),
                !.gen_outcome = IF env.llm_available THEN o ELSE "not called",
                !.calls = [qs.calls EXCEPT
                             !.generate = @ + 1,
                             !.provider = IF env.llm_available THEN @ + 1 ELSE @]]
    /\ qpc' = IF env.llm_available /\ o = "raise" THEN "generate" ELSE "save"
    /\ UNCHANGED QueryFrame

\* query: llm_result = self.generate_answer(query_text, context)
GenerateAnswer(o) ==
    /\ qpc = "generate"
    /\ qs' = [qs EXCEPT
                !.llm_result = generate_answer(env.llm_available, o),
                !.gen_outcome = IF env.llm_available THEN o ELSE "not called",
                !.calls = [qs.calls EXCEPT
                             !.generate = @ + 1,
                             !.provider = IF env.llm_available THEN @ + 1 ELSE @]]
    /\ qpc' = "save"
    /\ UNCHANGED QueryFrame

\* (mutant of SaveQuery) a failure to write the log leaves query
SaveQuery_Raising(o) ==
    /\ qpc = "save"
    /\ LET logged == save_query(qs.tweet_results, qs.link_results, o)
       IN  qs' = [qs EXCEPT
                    !.logged = logged,
                    !.save_outcome = o,
                    !.raised = (logged = <<>>),
                    !.response = IF logged = <<>> THEN NoResponse
                                 ELSE result(qs.tweet_results, qs.link_results,
                                             qs.llm_result),
                    !.calls = Called("save")]
    /\ qpc' = "Done"
    /\ UNCHANGED QueryFrame

\* query: self._save_query(...), then the result dict
SaveQuery(o) ==
    /\ qpc = "save"
    /\ qs' = [qs EXCEPT
                !.logged = save_query(qs.tweet_results, qs.link_results, o),
                !.save_outcome = o,
                !.response = result(qs.tweet_results, qs.link_results, qs.llm_result),
                !.calls = Called("save")]
    /\ qpc' = "Done"
    /\ UNCHANGED QueryFrame

\* The next call of query
NextQuery ==
    /\ qpc = "Done"
    /\ qpc' = "Idle"
    /\ qs' = NoQuery
    /\ UNCHANGED QueryFrame

NextQ ==
    \/ \E o \in EmbedOutcomes : EmbedQuery(o)
    \/ \E o \in KeywordOutcomes(env.top_k) : KeywordSearch(o)
    \/ VectorSearchTweets
    \/ VectorSearchLinks
    \/ NoContent
    \/ FormatContext
    \/ \E o \in {"ok", "raise"} : GenerateAnswer(o)
    \/ \E o \in {"ok", "raise"} : SaveQuery(o)
    \/ NextQuery

SpecQuery == InitQuery /\ [][NextQ]_vars

-----------------------------------------------------------------------------
(* Claims on the pipeline *)

Sims(results) == {results[i].similarity : i \in DOMAIN results}

\* C7: with an embedding, whatever the threshold, no result of either result
\* set (nor of the sources the query returns) has a similarity below the
\* threshold, and every result the store search returned with a similarity at
\* or above the threshold is in the result set, in the order of the search.
C7_ThresholdInvariant ==
    qs.embed_outcome = "vector" =>
        /\ \A x \in Sims(qs.tweet_results) \cup Sims(qs.link_results) :
             ~SimLess(x, env.min_similarity)
        /\ \A x \in Sims(qs.response.tweets) \cup Sims(qs.response.links) :
             ~SimLess(x, env.min_similarity)
        /\ qs.calls.search_tweets = 1 =>
             /\ \A i \in DOMAIN qs.raw_tweets :
                  ~SimLess(qs.raw_tweets[i].similarity, env.min_similarity) =>
                      qs.raw_tweets[i] \in Range(qs.tweet_results)
             /\ Range(qs.tweet_results) \subseteq Range(qs.raw_tweets)
        /\ qs.calls.search_links = 1 =>
             /\ \A i \in DOMAIN qs.raw_links :
                  ~SimLess(qs.raw_links[i].similarity, env.min_similarity) =>
                      qs.raw_links[i] \in Range(qs.link_results)
             /\ Range(qs.link_results) \subseteq Range(qs.raw_links)

\* a query whose tweet search returned a result kept and a result dropped
C7_Witness ==
    /\ qs.embed_outcome = "vector"
    /\ qpc = "Done"
    /\ qs.tweet_results # <<>>
    /\ Len(qs.raw_tweets) > Len(qs.tweet_results)

\* C8: a query whose embedding provider gave None or raised calls the keyword
\* search, once, and no vector search; a query that got an embedding never
\* calls the keyword search, and searches both stores.
C8_FallbackCorrectness ==
    /\ qs.embed_outcome \in {"none", "raise"} =>
         /\ qs.calls.search_tweets = 0 /\ qs.calls.search_links = 0
         /\ qpc \notin {"Idle", "keyword_search"} => qs.calls.keyword = 1
    /\ qs.embed_outcome = "vector" =>
         /\ qs.calls.keyword = 0
         /\ qpc \notin {"Idle", "vector_search_tweets", "vector_search_links"} =>
              qs.calls.search_tweets = 1 /\ qs.calls.search_links = 1

C8_Witness ==
    /\ qpc = "Done"
    /\ qs.embed_outcome = "raise"
    /\ qs.calls.keyword = 1
    /\ qs.tweet_results # <<>>

\* C9: generate_answer (and the provider behind it) is called only with a
\* result in one of the two sets; a query that ends with both sets empty
\* returns the fixed answer, no sources and zero counts.
C9_NoGenerationOnEmptyEvidence ==
    /\ (qs.calls.generate > 0 \/ qs.calls.provider > 0) =>
         (qs.tweet_results # <<>> \/ qs.link_results # <<>>)
    /\ (qpc = "Done" /\ qs.tweet_results = <<>> /\ qs.link_results = <<>>) =>
         /\ qs.response = NoContentResponse
         /\ ~qs.raised

\* both searches ran and gave nothing above the threshold
C9_Witness ==
    /\ qpc = "Done"
    /\ qs.embed_outcome = "vector"
    /\ qs.raw_tweets # <<>>
    /\ qs.response = NoContentResponse

\* C10: whatever the providers do and whatever metadata the stores hold, a
\* query ends by returning a response with an answer; it never raises.
C10_BestEffortAnswer ==
    qpc = "Done" => (~qs.raised /\ qs.response.answer # "none")

\* C11: a query whose answer provider failed still calls _save_query and
\* returns: the answer is the error string, tokens and generation time are 0,
\* and the sources and the counts are those a successful generation gives.
C11_GenerationFailure ==
    (qpc = "Done" /\ qs.gen_outcome = "raise") =>
        LET ok == result(qs.tweet_results, qs.link_results,
                         [answer |-> "text", tokens |-> 1, time_ms |-> 1])
        IN  /\ ~qs.raised
            /\ qs.calls.save = 1
            /\ qs.response.answer = "Error generating answer"
            /\ qs.response.tokens = 0
            /\ qs.response.llm_time_ms = 0
            /\ qs.response.tweets = ok.tweets
            /\ qs.response.links = ok.links
            /\ qs.response.tweets_found = ok.tweets_found
            /\ qs.response.links_found = ok.links_found
            /\ qs.response.tweets_found + qs.response.links_found > 0

\* a query with evidence whose provider failed has returned
C11_Witness ==
    /\ qpc = "Done"
    /\ qs.gen_outcome = "raise"
    /\ qs.tweet_results # <<>>
    /\ qs.response.tweets # <<>>

\* C12: the response of a query that reached _save_query is the one its
\* results and its generator output determine, whether the log was written
\* or not, and the query did not raise.
C12_LoggingFailureInvisible ==
    (qpc = "Done" /\ qs.calls.save = 1) =>
        /\ ~qs.raised
        /\ qs.response.answer = qs.llm_result.answer
        /\ qs.response.tokens = qs.llm_result.tokens
        /\ qs.response.llm_time_ms = qs.llm_result.time_ms
        /\ qs.response.tweets = Prefix(qs.tweet_results, MAX_DISPLAY_RESULTS)
        /\ qs.response.links = Prefix(qs.link_results, MAX_DISPLAY_RESULTS)
        /\ qs.response.tweets_found = Len(qs.tweet_results)
        /\ qs.response.links_found = Len(qs.link_results)

\* a query has returned after its log could not be written
C12_Witness ==
    /\ qpc = "Done"
    /\ qs.calls.save = 1
    /\ qs.logged = <<>>
    /\ qs.response.answer = "text"

-----------------------------------------------------------------------------
(* Further claims on the sequential store *)

\* An entry add_items is to skip: no vector, or no id in its metadata
Skipped(s, e) ==
    \/ IsNone(e.embedding) \/ IsNone(e.metadata)
    \/ Get(Value(e.metadata), id_field(s)) = None

\* C13: an add_items batch with an entry that has no vector or no id is not
\* aborted: the call returns, the records it appended are the valid entries of
\* the batch whose id was not stored before the call, in batch order, and the
\* returned count is the growth of the store.
C13_SkipNotAbort ==
    (last.op = "add_items" /\ \E i \in DOMAIN last.batch : Skipped(last.store, last.batch[i])) =>
        LET s == last.store
            known == Range(IdsOf(s, SubSeq(metadata[s], 1, last.before)))
            expected == SelectSeq(last.batch,
                            LAMBDA e : /\ ValidEntry(s, e)
                                       /\ Str(Value(e.metadata)[id_field(s)]) \notin known)
        IN  /\ ~last.raised
            /\ SubSeq(metadata[s], last.before + 1, Len(metadata[s])) =
                   [i \in DOMAIN expected |-> Value(expected[i].metadata)]
            /\ last.ret = Len(metadata[s]) - last.before

\* C14: after an add_items call that stored an entry has returned, a store
\* opened on the same directory holds the records of the store in memory, in
\* the same order: the metadata list read back is the list in memory, the
\* index read back is the index in memory, and the two have the same length.
C14_DurabilityRoundTrip ==
    (last.op = "add_items" /\ ~last.raised /\ last.ret > 0) =>
        LET s == last.store
            opened == LocalVectorStore(s, files[s])
        IN  /\ opened.metadata = metadata[s]
            /\ opened.index = index[s]
            /\ Len(opened.index) = Len(opened.metadata)

\* a second add_items call has stored an entry behind the records of a first
C14_Witness ==
    /\ last.op = "add_items" /\ ~last.raised
    /\ last.ret > 0 /\ last.before > 0

\* C15: search on a store without records returns [] and does not raise, for
\* every query vector (of the store's dimension or not) and every top_k, and
\* leaves the store as it was.
C15_EmptyStoreSafety ==
    (last.op = "search" /\ Len(index[last.store]) = 0 /\ Len(metadata[last.store]) = 0) =>
        /\ ~last.raised
        /\ last.results = <<>>
        /\ last.compared = 0
        /\ ~last.changed

\* a query of another length than the dimension was searched in an empty store
C15_Witness ==
    /\ last.op = "search"
    /\ Len(index[last.store]) = 0
    /\ Len(last.embedding) # EMBEDDING_DIMENSION
    /\ ~last.raised

\* The positions (1-based) of the stored vectors identical to the normalized
\* query of the last search
ExactMatches ==
    {p \in DOMAIN index[last.store] :
        index[last.store][p] = normalize_L2(last.embedding)}

\* The ids of the store of the last call are all different
UniqueIds ==
    \A i, j \in DOMAIN metadata[last.store] :
        i # j => IdsOf(last.store, metadata[last.store])[i]
                     # IdsOf(last.store, metadata[last.store])[j]

Routed ==
    LET s == last.store
        o == OtherStore(s)
    IN  /\ StoreOf(o) = last.pre[o]
        /\ last.op = "add_items" =>
             \E r \in {add_items(s, last.pre[s], last.batch)} :
                /\ last.ret = r.ret /\ last.raised = r.raised
                /\ StoreOf(s) = r.store
        /\ last.op = "search" =>
             /\ StoreOf(s) = last.pre[s]
             /\ IF search_raises(last.pre[s], last.embedding)
                THEN last.raised
                ELSE /\ ~last.raised
                     /\ \E a \in search(last.pre[s], last.embedding, last.top_k) :
                          last.results = a.results

\* C18: every add and every search the manager is asked for on one store
\* returns what add_items / search of that store returns and leaves the
\* records, the table, the index and the files of the other store unchanged.
C18_PureRouting ==
    last.op \in {"add_items", "search"} => Routed

\* an add on one store stored an entry while the other store held records
C18_Witness ==
    /\ last.op = "add_items"
    /\ last.ret > 0
    /\ Len(metadata[OtherStore(last.store)]) > 0

-----------------------------------------------------------------------------
(* Further claims on the pipeline *)

\* The text format_context builds before it looks at its length
FullText == Concat(context_parts(qs.tweet_results, qs.link_results))

\* C17: where format_context returns, its output for every max_tokens >= 1
\* (the configured one included) is the full text when the length of the full
\* text divided by 4 is at most max_tokens, and otherwise the first
\* max_tokens * 4 characters of the full text followed by the marker.
C17_BoundedContext ==
    (qs.calls.format = 1 /\ ~qs.raised) =>
        /\ \A m \in 1..MaxTokens :
             LET out == format_context(qs.tweet_results, qs.link_results, m)
             IN  IF Len(FullText) \div 4 > m
                 THEN /\ Len(out) = m * 4 + Len(TruncationMarker)
                      /\ SubSeq(out, 1, m * 4) = SubSeq(FullText, 1, m * 4)
                      /\ SubSeq(out, m * 4 + 1, Len(out)) = TruncationMarker
                 ELSE out = FullText
        /\ qs.context =
               format_context(qs.tweet_results, qs.link_results, MAX_CONTEXT_TOKENS)

\* a context longer than the configured limit was cut
C17_Witness ==
    /\ qpc = "generate"
    /\ Len(FullText) \div 4 > MAX_CONTEXT_TOKENS
    /\ Len(qs.context) = MAX_CONTEXT_TOKENS * 4 + Len(TruncationMarker)

\* C20: in every query each stage runs at most once and in the order embed,
\* then the keyword search or the two vector searches (never both), then
\* format_context, generate_answer, _save_query, return; the embedding
\* provider has been called exactly once as soon as the query has left Idle,
\* the answer provider at most once.
C20_LinearPipeline ==
    LET c == qs.calls
    IN  /\ \A name \in DOMAIN c : c[name] <= 1
        /\ (qpc = "Idle") <=> (c.embed = 0)
        /\ c.embed = 0 => \A name \in DOMAIN c : c[name] = 0
        /\ c.keyword = 1 => (c.search_tweets = 0 /\ c.search_links = 0)
        /\ c.search_links = 1 => c.search_tweets = 1
        /\ c.format = 1 => (c.keyword = 1 \/ c.search_links = 1)
        /\ c.generate = 1 => c.format = 1
        /\ c.provider = 1 => c.generate = 1
        /\ c.save = 1 => c.generate = 1
        /\ qpc = "keyword_search" => (c.keyword = 0 /\ c.search_tweets = 0)
        /\ qpc = "vector_search_tweets" => (c.keyword = 0 /\ c.search_tweets = 0)
        /\ qpc = "vector_search_links" => (c.search_tweets = 1 /\ c.search_links = 0)
        /\ qpc = "searched" => (c.format = 0 /\ (c.keyword = 1 \/ c.search_links = 1))
        /\ qpc = "generate" => (c.format = 1 /\ c.generate = 0)
        /\ qpc = "save" => (c.generate = 1 /\ c.save = 0)
        /\ qpc = "Done" => (c.save = 1 \/ c.generate = 0)

\* a query went through both vector searches, the format, the generation and
\* the log, and returned
C20_Witness ==
    /\ qpc = "Done"
    /\ qs.calls.search_tweets = 1 /\ qs.calls.search_links = 1
    /\ qs.calls.format = 1 /\ qs.calls.provider = 1 /\ qs.calls.save = 1

-----------------------------------------------------------------------------
(* Claims on the query log *)

\* The ids of the first ten results of a store, as the log is to carry them
TopIds(s, results) ==
    [i \in DOMAIN Prefix(results, ContextEntries) |-> results[i][id_field(s)]]

\* C21: a query that reached generate_answer and whose INSERT the database
\* accepted has written exactly one row to user_queries, with the number of
\* results and the ids of the first results of both stores.
C21_QueryAnalyticsRecorded ==
    (qpc = "Done" /\ qs.calls.generate = 1 /\ qs.save_outcome = "ok") =>
        /\ Len(qs.logged) = 1
        /\ qs.logged[1].results_count = Len(qs.tweet_results) + Len(qs.link_results)
        /\ qs.logged[1].tweets = TopIds("tweet_store", qs.tweet_results)
        /\ qs.logged[1].links = TopIds("link_store", qs.link_results)

-----------------------------------------------------------------------------
(* Claims on the keyword fallback *)

\* What the fallback leaves apart from the limit: no vector search, every row
\* the database gave kept whatever the threshold, no link result
FallbackShape ==
    /\ qs.calls.search_tweets = 0 /\ qs.calls.search_links = 0
    /\ qs.tweet_results = qs.keyword_rows
    /\ qs.link_results = <<>>

\* C22 (as stated): a query whose embedding is unavailable runs the keyword
\* search on the tweets table with the default limit of 50 rows, keeps every
\* row whatever the threshold, and has no link result.
C22_LexicalFallbackShape ==
    qs.calls.keyword = 1 =>
        /\ qs.keyword_limit = KEYWORD_DEFAULT_LIMIT
        /\ FallbackShape

\* C22 (amended): the limit of the keyword search is the top_k of the
\* pipeline, so at most top_k rows come back; the rest is as stated.
C22_LexicalFallbackTopK ==
    qs.calls.keyword = 1 =>
        /\ qs.keyword_limit = env.top_k
        /\ Len(qs.tweet_results) <= env.top_k
        /\ FallbackShape

\* the fallback gave a row to a pipeline whose threshold is 1, and the query
\* returned it
C22_Witness ==
    /\ qpc = "Done"
    /\ qs.calls.keyword = 1
    /\ env.min_similarity = One
    /\ qs.tweet_results # <<>>
    /\ qs.response.tweets # <<>>

-----------------------------------------------------------------------------
(* Restarts: the process that holds the stores ends and a new one opens them *)
(* on the directories it finds.  Between the two a file of a directory may   *)
(* have become unreadable.  The calls are on the tweet store; the link store *)
(* runs the same code on a directory of its own.                             *)

FileNames == {"index.faiss", "metadata.json"}

\* The file of that name in the directory f
FileOf(f, name) == IF name = "index.faiss" THEN f.index_faiss ELSE f.metadata_json

\* A file of the directory of store s that exists becomes unreadable: what
\* makes faiss.read_index / json.loads raise in _load_index / _load_metadata
Damage(s, name) ==
    /\ ~IsNone(FileOf(files[s], name))
    /\ name \notin files[s].unreadable
    /\ files' = [files EXCEPT ![s].unreadable = @ \cup {name}]
    /\ last' = [NoCall EXCEPT !.op = "damage", !.store = s]
    /\ UNCHANGED <<index, metadata, id_lookup, pc, frame, lock, qpc, qs, env, ing, cap>>

\* _persist stopped between its two statements: index.faiss is written anew,
\* metadata.json is the file the directory f held
persist_stopped(mem, f) ==
    [f EXCEPT !.index_faiss = Some(mem.index), !.unreadable = @ \ {"index.faiss"}]

\* The process stops in an add_items call on store s, inside _persist, after
\* faiss.write_index and before metadata_path.write_text; its memory is lost
\* and a new process opens both stores on the directories
CrashInPersist(s, batch) ==
    /\ TotalRecords + Len(batch) <= MaxRecords
    /\ \E r \in {add_items(s, StoreOf(s), batch)} :
         /\ ~r.raised
         /\ r.ret > 0
         /\ \E f \in {[files EXCEPT ![s] = persist_stopped(r.store, files[s])]} :
              \E opened \in {[x \in Stores |-> LocalVectorStore(x, f[x])]} :
                 /\ files' = f
                 /\ index' = [x \in Stores |-> opened[x].index]
                 /\ metadata' = [x \in Stores |-> opened[x].metadata]
                 /\ id_lookup' = [x \in Stores |-> opened[x].id_lookup]
    /\ last' = [NoCall EXCEPT !.op = "crash", !.store = s, !.batch = batch,
                              !.before = Len(metadata[s]),
                              !.pre = [x \in Stores |-> StoreOf(x)]]
    /\ UNCHANGED <<pc, frame, lock, qpc, qs, env, ing, cap>>

\* An index opened beside an unreadable metadata.json keeps its vectors while
\* the record list starts empty, so the bound is on the vectors as well
NextRestart ==
    \/ \E batch \in ConcBatches :
         /\ Len(index["tweet_store"]) + Len(batch) <= MaxRecords
         /\ AddItems("tweet_store", batch)
    \/ \E batch \in ConcBatches :
         /\ Len(index["tweet_store"]) + Len(batch) <= MaxRecords
         /\ CrashInPersist("tweet_store", batch)
    \/ \E name \in FileNames : Damage("tweet_store", name)
    \/ Reopen

SpecRestart == Init /\ [][NextRestart]_vars

\* C23: a store opened on a directory of which a file is unreadable is a
\* fresh empty store: no vector in the index, no record, no id in the table.
C23_CorruptStoreRecovery ==
    last.op = "open" =>
        \A s \in Stores :
            files[s].unreadable # {} =>
                /\ Len(index[s]) = 0
                /\ Len(metadata[s]) = 0
                /\ id_lookup[s] = EmptyLookup

-----------------------------------------------------------------------------
(* Claims on the records of a store *)

IsPrefix(a, b) == Len(a) <= Len(b) /\ SubSeq(b, 1, Len(a)) = a

\* C24: after every add_items and every search call, on each store the list
\* of metadata dicts and the rows of the index as they were before the call
\* are a prefix of what they are after it: a stored record keeps its vector,
\* its metadata and its position.
C24_AppendOnlyRecords ==
    last.op \in {"add_items", "search"} =>
        \A s \in Stores :
            /\ IsPrefix(last.pre[s].metadata, metadata[s])
            /\ IsPrefix(last.pre[s].index, index[s])

\* an add_items call stored an entry of a batch behind a record whose id the
\* batch holds too
C24_Witness ==
    /\ last.op = "add_items"
    /\ last.ret > 0
    /\ last.ret < Len(last.batch)
    /\ Len(last.pre[last.store].metadata) > 0
    /\ metadata[last.store] # last.pre[last.store].metadata

\* str() of the id of an entry that has one
EntryId(s, e) == Str(Value(e.metadata)[id_field(s)])

\* The positions of the valid entries of the batch of the last call
ValidPositions ==
    {x \in DOMAIN last.batch : ValidEntry(last.store, last.batch[x])}

\* The ids not stored before the last call that a valid entry of its batch
\* carries
NewIds ==
    {EntryId(last.store, last.batch[i]) : i \in ValidPositions}
        \ Range(IdsOf(last.store, last.pre[last.store].metadata))

\* Those of them that two or more valid entries of the batch carry
RepeatedNewIds ==
    {k \in NewIds :
        \E i, j \in ValidPositions :
            /\ i # j
            /\ EntryId(last.store, last.batch[i]) = k
            /\ EntryId(last.store, last.batch[j]) = k}

\* C25: after an add_items call whose batch holds two or more valid entries
\* of one id that was not stored, the store holds exactly one record of that
\* id, and the call counted one record for each new id of its batch.
C25_DuplicatesInsideOneBatch ==
    (last.op = "add_items" /\ ~last.raised /\ RepeatedNewIds # {}) =>
        LET ids == IdsOf(last.store, metadata[last.store])
        IN  /\ \A k \in RepeatedNewIds :
                 Cardinality({p \in DOMAIN ids : ids[p] = k}) = 1
            /\ last.ret = Cardinality(NewIds)

-----------------------------------------------------------------------------
(* Claims on restarts *)

\* The record at position p (1-based) of store s, as an entry of a batch
StoredEntry(s, p) == Entry(Some(index[s][p]), Some(metadata[s][p]))

\* C26: in a store that has just been opened, the id of every record is in
\* the id->position table, at the position of the record when no other
\* record has the id, and add_items with a stored record returns 0 and
\* stores nothing.
C26_IdempotenceSurvivesRestart ==
    last.op = "open" =>
        \A s \in Stores : \A p \in DOMAIN metadata[s] \cap DOMAIN index[s] :
            LET ids == IdsOf(s, metadata[s])
            IN  /\ ids[p] \in DOMAIN id_lookup[s]
                /\ (\A q \in DOMAIN ids : ids[q] = ids[p] => q = p) =>
                       id_lookup[s][ids[p]] = p - 1
                /\ add_items(s, StoreOf(s), <<StoredEntry(s, p)>>).ret = 0

\* C27: a store opened after the process stopped between the two writes of
\* _persist has as many vectors in its index as records, and as many ids in
\* its table.
C27_CrashConsistency ==
    last.op = "crash" =>
        LET s == last.store
        IN  /\ Len(index[s]) = Len(metadata[s])
            /\ Len(metadata[s]) = Cardinality(DOMAIN id_lookup[s])

-----------------------------------------------------------------------------
(* EmbeddingGenerator.process_tweets / process_links: one run takes the rows  *)
(* that are not flagged embedding_generated, batch by batch: it embeds the    *)
(* texts of a batch, flags each row that got a vector (an UPDATE that is      *)
(* committed at once), and then hands the flagged rows of the batch to the    *)
(* vector store.  Each action is one of these calls.                          *)

\* The rows of tweets / linked_content with a text, by their id, in the order
\* of the SELECT
IngestRows == <<"'a'", "'b'">>

\* _tweet_metadata / _link_metadata of the row of that id
RowMetadata(s, id) == IF s = "tweet_store" THEN FullTweet(id) ELSE FullLink(id)

\* A vector of the model, whose dimension the settings may not match
ModelVector(dim) == IF dim = EMBEDDING_DIMENSION THEN <<1, 0>> ELSE <<1>>

\* get_pending_tweets / get_pending_links: the rows not flagged
get_pending(s, flagged) == SelectSeq(IngestRows, LAMBDA id : id \notin flagged[s])

IngestFrame == <<last, pc, frame, lock, qpc, qs, env, cap>>

StoreFrame == <<index, metadata, id_lookup, files>>

\* process_tweets / process_links up to the loop over the batches
ProcessBegin(s, batch_size) ==
    /\ ing.pc \in {"idle", "done", "failed"}
    /\ LET pending == get_pending(s, ing.flagged)
       IN  ing' = [ing EXCEPT
                     !.store = s, !.batch_size = batch_size, !.pending = pending,
                     !.i = 0, !.batch = <<>>, !.embeddings = <<>>, !.j = 0,
                     !.to_store = <<>>, !.processed = 0, !.failed = 0,
                     !.pc = IF pending = <<>> THEN "done" ELSE "embed"]
    /\ UNCHANGED StoreFrame
    /\ UNCHANGED IngestFrame

\* batch = rows[i:i + batch_size]; embeddings =
\* self.generate_embeddings_batch(texts): a vector or None for each text
EmbedBatch(embeddings) ==
    /\ ing.pc = "embed"
    /\ LET batch == SubSeq(ing.pending, ing.i + 1,
                           Min(ing.i + ing.batch_size, Len(ing.pending)))
       IN  /\ DOMAIN embeddings = DOMAIN batch
           /\ ing' = [ing EXCEPT !.batch = batch, !.embeddings = embeddings,
                                 !.j = 1, !.to_store = <<>>, !.pc = "mark"]
    /\ UNCHANGED StoreFrame
    /\ UNCHANGED IngestFrame

\* One turn of `for tweet, embedding in zip(batch, embeddings)`; o is what
\* the UPDATE of mark_tweet_embedded / mark_link_embedded does
MarkEmbedded(o) ==
    /\ ing.pc = "mark"
    /\ ing.j <= Len(ing.batch)
    /\ LET id == ing.batch[ing.j]
           embedding == ing.embeddings[ing.j]
       IN  IF IsNone(embedding) \/ o = "raise"
           THEN ing' = [ing EXCEPT !.failed = @ + 1, !.j = @ + 1]
           ELSE ing' = [ing EXCEPT
                          !.flagged[ing.store] = @ \cup {id},
                          !.processed = @ + 1,
                          !.to_store = Append(@, Entry(embedding,
                                                       Some(RowMetadata(ing.store, id)))),
                          !.j = @ + 1]
    /\ UNCHANGED StoreFrame
    /\ UNCHANGED IngestFrame

\* `if batch_store_embeddings: vector_store_manager.add_..._embeddings(...)`
\* and the next batch; an add that raises ends the run with the exception
AddBatch ==
    /\ ing.pc = "mark"
    /\ ing.j > Len(ing.batch)
    /\ \E r \in {add_items(ing.store, StoreOf(ing.store), ing.to_store)} :
         IF ing.to_store # <<>> /\ r.raised
         THEN /\ ing' = [ing EXCEPT !.pc = "failed"]
              /\ UNCHANGED StoreFrame
         ELSE /\ IF ing.to_store # <<>>
                 THEN SetStore(ing.store, r.store)
                 ELSE UNCHANGED StoreFrame
              /\ ing' = [ing EXCEPT
                            !.i = @ + ing.batch_size,
                            !.pc = IF ing.i + ing.batch_size >= Len(ing.pending)
                                   THEN "done" ELSE "embed"]
    /\ UNCHANGED IngestFrame

\* EmbeddingGenerator.__init__: the model is loaded; a dimension that is not
\* settings.EMBEDDING_DIMENSION is logged as a warning
InitIngest ==
    /\ InitStores
    /\ last = NoCall
    /\ ThreadsIdle
    /\ PipelineIdle
    /\ cap = NoCapture
    /\ \E dim \in {EMBEDDING_DIMENSION, EMBEDDING_DIMENSION - 1} :
         ing = [NoIngest EXCEPT !.model_dim = dim]

NextIngest ==
    \/ \E s \in Stores : \E batch_size \in 1..MaxBatch : ProcessBegin(s, batch_size)
    \/ \E embeddings \in UNION {[1..n ->
                                   {NoneValue, Some(ModelVector(ing.model_dim))}] :
                                     n \in 0..MaxBatch} :
         EmbedBatch(embeddings)
    \/ \E o \in {"ok", "raise"} : MarkEmbedded(o)
    \/ AddBatch

SpecIngest == InitIngest /\ [][NextIngest]_vars

\* C28: when a run of process_tweets / process_links has ended, by returning
\* or by an exception, every row flagged embedding_generated has a record of
\* its id in the store of its kind (so a row without record is still pending).
C28_IngestionFlagAgreesWithStore ==
    ing.pc \in {"done", "failed"} =>
        \A s \in Stores : \A id \in ing.flagged[s] :
            Str(id) \in Range(IdsOf(s, metadata[s]))

-----------------------------------------------------------------------------
(* The tweet capture service, for one (user, tweet) pair.  capture_tweet runs *)
(* in the server processes and retry_queued_tweets in a worker process of its *)
(* own; they share the tweets document of the pair and the queue collection   *)
(* in Firestore, and the Pub/Sub topic.  Each action is one call to Firestore *)
(* or Pub/Sub, so that calls of different processes interleave.  The          *)
(* Firestore calls of the except branches are taken to succeed.               *)

MAX_ATTEMPTS == 5            \* retry_queued_tweets: `if attempts >= 5`

\* What pubsub.publish_tweet may do: return the message id, raise without a
\* message sent, or raise from future.result(timeout=10) after the publisher
\* has sent the message
PublishOutcomes == {"ok", "raise", "timeout"}

\* get_pending_queue_items: the queue documents whose status is "pending",
\* each with the attempts it holds when it is read
get_pending_queue_items(queue) ==
    LET ids == SelectSeq([i \in DOMAIN queue |-> i],
                         LAMBDA i : queue[i].status = "pending")
    IN  [n \in DOMAIN ids |-> [id |-> ids[n], attempts |-> queue[ids[n]].attempts]]

CaptureFrame ==
    <<index, metadata, id_lookup, files, last, pc, frame, lock, qpc, qs, env, ing>>

\* capture_tweet: `if await self.firestore.tweet_exists(...)`
CaptureBegin(c) ==
    /\ cap.client[c].pc = "idle"
    /\ cap.started < MaxCaptures
    /\ cap' = [cap EXCEPT
                 !.started = @ + 1,
                 !.client[c] = IF cap.doc.exists
                               THEN [pc |-> "done", status |-> "duplicate", sent |-> 0]
                               ELSE [pc |-> "publish", status |-> "none", sent |-> 0]]
    /\ UNCHANGED CaptureFrame

\* capture_tweet: message_id = await self.pubsub.publish_tweet(...)
CapturePublish(c, o) ==
    /\ cap.client[c].pc = "publish"
    /\ cap' = [cap EXCEPT
                 !.published = IF o = "raise" THEN @ ELSE @ + 1,
                 !.client[c].sent = IF o = "raise" THEN @ ELSE @ + 1,
                 !.client[c].pc = IF o = "ok" THEN "save" ELSE "except"]
    /\ UNCHANGED CaptureFrame

\* capture_tweet: await self.firestore.save_tweet(..., message_id) and the
\* return of "published"; an exception goes to the except branch
CaptureSave(c, o) ==
    /\ cap.client[c].pc = "save"
    /\ IF o = "ok"
       THEN cap' = [cap EXCEPT
                      !.doc = [exists |-> TRUE, message_id |-> Some("m")],
                      !.client[c].pc = "done",
                      !.client[c].status = "published"]
       ELSE cap' = [cap EXCEPT !.client[c].pc = "except"]
    /\ UNCHANGED CaptureFrame

\* except branch: await self.firestore.save_tweet(..., None)
CaptureExceptSave(c) ==
    /\ cap.client[c].pc = "except"
    /\ cap' = [cap EXCEPT
                 !.doc = [exists |-> TRUE, message_id |-> NoneValue],
                 !.client[c].pc = "queue"]
    /\ UNCHANGED CaptureFrame

\* except branch: await self.firestore.queue_tweet_for_retry(...) and the
\* return of "queued"
CaptureQueue(c) ==
    /\ cap.client[c].pc = "queue"
    /\ cap' = [cap EXCEPT
                 !.queue = Append(@, [status |-> "pending", attempts |-> 0]),
                 !.client[c].pc = "done",
                 !.client[c].status = "queued"]
    /\ UNCHANGED CaptureFrame

\* The response is sent; the caller may send a request again
CaptureReturn(c) ==
    /\ cap.client[c].pc = "done"
    /\ cap' = [cap EXCEPT !.client[c] = [pc |-> "idle", status |-> "none", sent |-> 0]]
    /\ UNCHANGED CaptureFrame

\* retry_queued_tweets: queue_items = await
\* firestore_service.get_pending_queue_items(limit=limit)
RetryBegin ==
    /\ cap.worker.pc = "idle"
    /\ cap' = [cap EXCEPT
                 !.worker = [pc |-> "loop", items |-> get_pending_queue_items(cap.queue),
                             k |-> 1]]
    /\ UNCHANGED CaptureFrame

\* The item the loop of retry_queued_tweets is at
Item == cap.worker.items[cap.worker.k]

\* `for item in queue_items`: the test `attempts >= 5` on the item as it was
\* read, and the update to "failed"
RetryItem ==
    /\ cap.worker.pc = "loop"
    /\ cap.worker.k <= Len(cap.worker.items)
    /\ IF Item.attempts >= MAX_ATTEMPTS
       THEN cap' = [cap EXCEPT
                      !.queue[Item.id] = [status |-> "failed", attempts |-> Item.attempts],
                      !.worker.k = @ + 1]
       ELSE cap' = [cap EXCEPT !.worker.pc = "publish"]
    /\ UNCHANGED CaptureFrame

\* message_id = await pubsub_service.publish_tweet(tweet_data, user_id)
RetryPublish(o) ==
    /\ cap.worker.pc = "publish"
    /\ cap' = [cap EXCEPT
                 !.published = IF o = "raise" THEN @ ELSE @ + 1,
                 !.worker.pc = IF o = "ok" THEN "update" ELSE "except"]
    /\ UNCHANGED CaptureFrame

\* await firestore_service.update_tweet_message_id(...)
RetryUpdate(o) ==
    /\ cap.worker.pc = "update"
    /\ IF o = "ok" /\ cap.doc.exists
       THEN cap' = [cap EXCEPT !.doc.message_id = Some("m"), !.worker.pc = "delete"]
       ELSE cap' = [cap EXCEPT !.worker.pc = "except"]
    /\ UNCHANGED CaptureFrame

\* await firestore_service.delete_queue_item(queue_id)
RetryDelete ==
    /\ cap.worker.pc = "delete"
    /\ cap' = [cap EXCEPT
                 !.queue[Item.id] = [status |-> "deleted", attempts |-> Item.attempts],
                 !.worker.pc = "loop",
                 !.worker.k = @ + 1]
    /\ UNCHANGED CaptureFrame

\* except branch: update_queue_item_status(queue_id, "retrying", attempts + 1,
\* str(exc))
RetryExcept ==
    /\ cap.worker.pc = "except"
    /\ cap' = [cap EXCEPT
                 !.queue[Item.id] = [status |-> "retrying", attempts |-> Item.attempts + 1],
                 !.worker.pc = "loop",
                 !.worker.k = @ + 1]
    /\ UNCHANGED CaptureFrame

\* The loop is through: the run ends
RetryEnd ==
    /\ cap.worker.pc = "loop"
    /\ cap.worker.k > Len(cap.worker.items)
    /\ cap' = [cap EXCEPT !.worker = [pc |-> "idle", items |-> <<>>, k |-> 0]]
    /\ UNCHANGED CaptureFrame

NextCapture ==
    \/ \E c \in Clients : CaptureBegin(c)
    \/ \E c \in Clients : \E o \in PublishOutcomes : CapturePublish(c, o)
    \/ \E c \in Clients : \E o \in {"ok", "raise"} : CaptureSave(c, o)
    \/ \E c \in Clients : CaptureExceptSave(c)
    \/ \E c \in Clients : CaptureQueue(c)
    \/ \E c \in Clients : CaptureReturn(c)
    \/ RetryBegin
    \/ RetryItem
    \/ \E o \in PublishOutcomes : RetryPublish(o)
    \/ \E o \in {"ok", "raise"} : RetryUpdate(o)
    \/ RetryDelete
    \/ RetryExcept
    \/ RetryEnd

SpecCapture == Init /\ [][NextCapture]_vars

\* C29: a queue document that is neither removed nor marked failed is one
\* that the next run of retry_queued_tweets reads, so that it is tried again;
\* and a document is marked failed only with 5 attempts or more.
C29_RetryQueueProgress ==
    \A i \in DOMAIN cap.queue :
        /\ cap.queue[i].status \notin {"deleted", "failed"} =>
             \E n \in DOMAIN get_pending_queue_items(cap.queue) :
                 get_pending_queue_items(cap.queue)[n].id = i
        /\ cap.queue[i].status = "failed" => cap.queue[i].attempts >= MAX_ATTEMPTS

\* C30: the (user, tweet) pair is published to Pub/Sub at most once, and a
\* capture_tweet call that returns "duplicate" has published nothing.
C30_AtMostOncePublish ==
    /\ cap.published <= 1
    /\ \A c \in Clients : cap.client[c].status = "duplicate" => cap.client[c].sent = 0

====
